---- MODULE Spec2Model ----
(***************************************************************************)
(* HuskyBase (src/husky_base/src/husky_base.cpp): the hardware interface   *)
(* of a differential-drive base.  The object's fields are the variables,   *)
(* each member function called by the control framework is one action.     *)
(*                                                                         *)
(* Every number in the source is an IEEE-754 double.  They are modelled by *)
(* a binary floating-point format of the same shape with a short           *)
(* significand: Precision significant bits, round-to-nearest-even, gradual *)
(* underflow, overflow to infinity, and a NaN.  A finite value is held as  *)
(* the integer number of grid units (1 unit = 2^-FracBits) it is worth.    *)
(* Zero is unsigned.                                                       *)
(***************************************************************************)
EXTENDS Integers, Sequences, FiniteSets, TLC

\* ------------------------------------------------------------------------
\* Bounds of the model
\* ------------------------------------------------------------------------
Precision == 4   \* significant bits of a float
FracBits == 8    \* the smallest positive float is 2^-FracBits
MaxJoints == 3   \* most joints an info descriptor carries

\* ------------------------------------------------------------------------
\* Floating point
\* ------------------------------------------------------------------------
One == 2^FracBits
MaxFinite == (2^Precision - 1) * 2^(FracBits + 1)
Infinity == MaxFinite + 1
NaN == MaxFinite + 2

IsNaN(x) == x = NaN
IsInf(x) == x = Infinity \/ x = -Infinity
IsFinite(x) == ~IsNaN(x) /\ ~IsInf(x)
Abs(x) == IF x < 0 THEN -x ELSE x
Sign(x) == IF x < 0 THEN -1 ELSE IF x > 0 THEN 1 ELSE 0

\* n/d (n >= 0, d > 0) rounded to the nearest integer, ties to even
RoundNearestEven(n, d) ==
  LET q == n \div d
      r == n % d
  IN IF 2 * r > d \/ (2 * r = d /\ q % 2 = 1) THEN q + 1 ELSE q

\* the spacing of the floats around q >= 0: the least power of two u >= s
\* with q < u * 2^Precision
RECURSIVE Spacing(_, _)
Spacing(q, s) == IF q < s * 2^Precision THEN s ELSE Spacing(q, 2 * s)

\* the float nearest to sgn * n/d grid units (n >= 0, d > 0)
RoundToFloat(sgn, n, d) ==
  LET u == Spacing(n \div d, 1)
      k == RoundNearestEven(n, d * u) * u
  IN IF k > MaxFinite THEN sgn * Infinity ELSE sgn * k

\* the float nearest to the rational n/d (d > 0)
Float(n, d) == RoundToFloat(Sign(n), Abs(n) * One, d)

\* std::isnan, std::abs and the comparisons of doubles
FAbs(x) == IF IsNaN(x) THEN NaN ELSE Abs(x)
FLess(x, y) == ~IsNaN(x) /\ ~IsNaN(y) /\ x < y
FLessEq(x, y) == ~IsNaN(x) /\ ~IsNaN(y) /\ x <= y
FGreater(x, y) == FLess(y, x)

\* x + y
FAdd(x, y) ==
  IF IsNaN(x) \/ IsNaN(y) THEN NaN
  ELSE IF IsInf(x) /\ IsInf(y) THEN (IF x = y THEN x ELSE NaN)
  ELSE IF IsInf(x) THEN x
  ELSE IF IsInf(y) THEN y
  ELSE RoundToFloat(Sign(x + y), Abs(x + y), 1)

\* x - y
FNeg(x) == IF IsNaN(x) THEN NaN ELSE -x
FSub(x, y) == FAdd(x, FNeg(y))

\* x * y
FMul(x, y) ==
  IF IsNaN(x) \/ IsNaN(y) THEN NaN
  ELSE IF IsInf(x) \/ IsInf(y)
    THEN (IF x = 0 \/ y = 0 THEN NaN ELSE Sign(x) * Sign(y) * Infinity)
  ELSE RoundToFloat(Sign(x) * Sign(y), Abs(x) * Abs(y), One)

\* x / y
FDiv(x, y) ==
  IF IsNaN(x) \/ IsNaN(y) THEN NaN
  ELSE IF IsInf(x) THEN (IF IsInf(y) THEN NaN
                         ELSE IF y < 0 THEN -x ELSE x)
  ELSE IF IsInf(y) THEN 0
  ELSE IF y = 0 THEN (IF x = 0 THEN NaN ELSE Sign(x) * Infinity)
  ELSE RoundToFloat(Sign(x) * Sign(y), Abs(x) * One, Abs(y))

\* std::max(a, b) is (a < b) ? b : a
FMax(a, b) == IF FLess(a, b) THEN b ELSE a


\* ------------------------------------------------------------------------
\* Inputs: what the framework and the drivetrain can hand to the object
\* ------------------------------------------------------------------------
NoSample == <<>>   \* requestData timed out: a null Channel pointer
TravelSamples == { <<Float(1, 8), Float(3, 16)>> }
SpeedSamples == { <<Float(1, 4), Float(-1, 2)>> }
CommandValues == { Float(-12, 1) }
Durations == { Float(2, 1) }
WheelDiameters == { Float(3, 8) }
MaxAccels == { Float(5, 1) }
MaxSpeeds == { Float(3, 2), Float(-1, 1) }
PollingTimeouts == { Float(10, 1) }
SerialPorts == { "/dev/ttyUSB0" }
\* a double field never assigned is Unset; reading it yields an
\* indeterminate value
Unset == NaN + 1
Indeterminate == { NaN, One }
ValuesOf(field) == IF field = Unset THEN Indeterminate ELSE { field }
\* what an out-of-bounds read of a vector<double> may yield
Garbage == { NaN, Float(16, 1) }

HW_IF_POSITION == "position"
HW_IF_VELOCITY == "velocity"
GoodJoint == [command_interfaces |-> <<HW_IF_VELOCITY>>,
              state_interfaces |-> <<HW_IF_POSITION, HW_IF_VELOCITY>>]
JointShapes ==
  { GoodJoint,
    [GoodJoint EXCEPT !.command_interfaces = <<>>],
    [GoodJoint EXCEPT !.command_interfaces = <<HW_IF_VELOCITY, HW_IF_VELOCITY>>],
    [GoodJoint EXCEPT !.command_interfaces = <<HW_IF_POSITION>>],
    [GoodJoint EXCEPT !.state_interfaces = <<HW_IF_POSITION>>],
    [GoodJoint EXCEPT !.state_interfaces = <<HW_IF_VELOCITY, HW_IF_VELOCITY>>],
    [GoodJoint EXCEPT !.state_interfaces = <<HW_IF_POSITION, HW_IF_POSITION>>] }

\* descriptors of up to MaxJoints joints, at most one of them ill-formed
JointLists ==
  UNION { { js \in [1..n -> JointShapes] :
              Cardinality({ i \in 1..n : js[i] # GoodJoint }) <= 1 } : n \in 0..MaxJoints }
GoodJointLists == { js \in JointLists : \A i \in 1..Len(js) : js[i] = GoodJoint }

\* a hardware parameter as the descriptor carries it: a numeral ("num"),
\* a numeral followed by other text ("numtext"), other text ("text"),
\* or no entry at all ("absent")
ParamNames == << "hw_start_duration_sec", "hw_stop_duration_sec", "wheel_diameter",
                 "max_accel", "max_speed", "polling_timeout", "serial_port" >>
Num(v) == [kind |-> "num", val |-> v]
DefaultParams ==
  [ hw_start_duration_sec |-> Num(Float(2, 1)),
    hw_stop_duration_sec |-> Num(Float(2, 1)),
    wheel_diameter |-> Num(Float(3, 8)),
    max_accel |-> Num(Float(5, 1)),
    max_speed |-> Num(Float(3, 2)),
    polling_timeout |-> Num(Float(10, 1)),
    serial_port |-> [kind |-> "num", val |-> "/dev/ttyUSB0"] ]
NoParams ==
  [ hw_start_duration_sec |-> [kind |-> "absent", val |-> 0],
    hw_stop_duration_sec |-> [kind |-> "absent", val |-> 0],
    wheel_diameter |-> [kind |-> "absent", val |-> 0],
    max_accel |-> [kind |-> "absent", val |-> 0],
    max_speed |-> [kind |-> "absent", val |-> 0],
    polling_timeout |-> [kind |-> "absent", val |-> 0],
    serial_port |-> [kind |-> "absent", val |-> ""] ]
WellFormedParams ==
  { [ hw_start_duration_sec |-> Num(a), hw_stop_duration_sec |-> Num(b),
      wheel_diameter |-> Num(d), max_accel |-> Num(c), max_speed |-> Num(m),
      polling_timeout |-> Num(t), serial_port |-> [kind |-> "num", val |-> s] ] :
      a \in Durations, b \in Durations, d \in WheelDiameters, c \in MaxAccels,
      m \in MaxSpeeds, t \in PollingTimeouts, s \in SerialPorts }
DefectKinds == { "absent", "text", "numtext" }
Defective(name, kind) ==
  IF name = "serial_port"
    THEN [DefaultParams EXCEPT ![name] =
            [kind |-> kind, val |-> IF kind = "absent" THEN "" ELSE "tty 0"]]
    ELSE [DefaultParams EXCEPT ![name].kind = kind]
DefectiveParams ==
  { Defective(ParamNames[i], k) : i \in 1..Len(ParamNames), k \in DefectKinds }
ParamSets == WellFormedParams \cup DefectiveParams

\* ------------------------------------------------------------------------
\* State: the fields of HuskyBase, and the most recent call with what it
\* returned and what it asked of the drivetrain
\* ------------------------------------------------------------------------
VARIABLES status, hw_states_position_, hw_states_position_offset_,
          hw_states_velocity_, hw_commands_, hw_start_sec_, hw_stop_sec_,
          wheel_diameter_, max_accel_, max_speed_, polling_timeout_,
          serial_port_,
          calibrated,   \* the travel resetTravelOffset() last calibrated from
          started,      \* a start() has completed
          call          \* the most recent call

fields == << status, hw_states_position_, hw_states_position_offset_,
             hw_states_velocity_, hw_commands_, hw_start_sec_, hw_stop_sec_,
             wheel_diameter_, max_accel_, max_speed_, polling_timeout_,
             serial_port_ >>
vars == << fields, calibrated, started, call >>

NoCall ==
  [ op |-> "none", result |-> "none",
    params |-> NoParams, joints |-> <<>>, \* configure: the descriptor
    threw |-> "",                        \* the parameter std::stod threw on
    connects |-> <<>>,                   \* horizon_legacy::connect calls
    limits |-> <<>>,                     \* horizon_legacy::configureLimits calls
    asked |-> 0,                         \* DataEncoders requests made
    travel |-> NoSample,                 \* DataEncoders answer
    speed |-> NoSample,                  \* DataDifferentialSpeed answer
    fatal |-> 0,                         \* RCLCPP_FATAL lines
    dropped |-> 0,                       \* "Dropping overflow measurement" lines
    waits |-> 0,                         \* one-second sleeps
    left |-> <<>>,                       \* last "seconds left" reported
    args |-> <<>>,                       \* the limiter's or converter's input
    limited |-> <<>>,                    \* what the limiter returned
    converted |-> <<>>,                  \* what the converters returned
    sent |-> <<>> ]                      \* horizon_legacy::controlSpeed calls

Init ==
  /\ status = "Unconfigured"
  /\ hw_states_position_ = <<>>
  /\ hw_states_position_offset_ = <<>>
  /\ hw_states_velocity_ = <<>>
  /\ hw_commands_ = <<>>
  /\ hw_start_sec_ = Unset
  /\ hw_stop_sec_ = Unset
  /\ wheel_diameter_ = Unset
  /\ max_accel_ = Unset
  /\ max_speed_ = Unset
  /\ polling_timeout_ = Unset
  /\ serial_port_ = ""
  /\ calibrated = NoSample
  /\ started = FALSE
  /\ call = NoCall

\* ------------------------------------------------------------------------
\* Unit conversion and speed limiting
\* ------------------------------------------------------------------------
Two == 2 * One

\* wheel_diameter is the field wheel_diameter_ at the time of the call
linearToAngular(travel, wheel_diameter) == FMul(FDiv(travel, wheel_diameter), Two)

\* a conversion that forgets to halve
angularToLinear_noHalf(angle, wheel_diameter) == FMul(angle, wheel_diameter)

angularToLinear(angle, wheel_diameter) == FDiv(FMul(angle, wheel_diameter), Two)

\* a limiter that looks at the left speed only
limitDifferentialSpeed_leftOnly(diff_speed_left, diff_speed_right, max_speed) ==
  LET large_speed == FAbs(diff_speed_left)
  IN IF FGreater(large_speed, max_speed)
       THEN << FMul(diff_speed_left, FDiv(max_speed, large_speed)),
               FMul(diff_speed_right, FDiv(max_speed, large_speed)) >>
       ELSE << diff_speed_left, diff_speed_right >>

\* the pair (diff_speed_left, diff_speed_right) after the call, max_speed
\* being the field max_speed_
limitDifferentialSpeed(diff_speed_left, diff_speed_right, max_speed) ==
  LET large_speed == FMax(FAbs(diff_speed_left), FAbs(diff_speed_right))
  IN IF FGreater(large_speed, max_speed)
       THEN << FMul(diff_speed_left, FDiv(max_speed, large_speed)),
               FMul(diff_speed_right, FDiv(max_speed, large_speed)) >>
       ELSE << diff_speed_left, diff_speed_right >>

\* a read of the command one place further on
CommandAt_next(i) ==
  IF i + 2 <= Len(hw_commands_) THEN { hw_commands_[i + 2] } ELSE Garbage

\* what reading hw_commands_[i] (zero-based) may yield: past the end the
\* read is undefined
CommandAt(i) == IF i + 1 <= Len(hw_commands_) THEN { hw_commands_[i + 1] } ELSE Garbage

LEFT == 0
RIGHT == 1

\* the controlSpeed call writeCommandsToHardware makes when the two commands
\* read are left and right
writeCommandsToHardware(left, right, wheel_diameter, max_speed, max_accel) ==
  LET lim == limitDifferentialSpeed(angularToLinear(left, wheel_diameter),
                                    angularToLinear(right, wheel_diameter), max_speed)
  IN << lim[1], lim[2], max_accel, max_accel >>


\* ------------------------------------------------------------------------
\* configure()
\* ------------------------------------------------------------------------
\* std::stod(info_.hardware_parameters[name]): operator[] yields "" for a
\* missing key; stod throws std::invalid_argument unless the text starts
\* with a numeral, and ignores whatever follows the numeral
StodThrows(p) == p.kind \in { "absent", "text" }
Stod(p) == p.val

\* the parameters in the order configure() parses them
ParseOrder == << "hw_start_duration_sec", "hw_stop_duration_sec", "wheel_diameter",
                 "max_accel", "max_speed", "polling_timeout" >>

\* index in ParseOrder of the first std::stod that throws, Len + 1 if none
FirstThrow(params) ==
  LET bad == { i \in 1..Len(ParseOrder) : StodThrows(params[ParseOrder[i]]) }
  IN IF bad = {} THEN Len(ParseOrder) + 1
     ELSE CHOOSE i \in bad : \A j \in bad : i <= j

\* the field after `field = std::stod(params[ParseOrder[i]])`, if reached
Parsed(params, i, field) ==
  IF i < FirstThrow(params) THEN Stod(params[ParseOrder[i]]) ELSE field

\* std::vector<double>::resize(n, quiet_NaN)
Resize(v, n) ==
  IF n <= Len(v) THEN SubSeq(v, 1, n)
  ELSE v \o [i \in 1..(n - Len(v)) |-> NaN]

\* the channel (LEFT or RIGHT) of joint i, one-based: i % 2 of the source
WheelOf(i) == ((i - 1) % 2) + 1

\* hw_states_position_offset_ after resetTravelOffset(), called when the
\* vector is `offset` and wheel_diameter_ is wheel_diameter
resetTravelOffset(enc, offset, wheel_diameter) ==
  IF enc # NoSample
    THEN [i \in 1..Len(offset) |-> linearToAngular(enc[WheelOf(i)], wheel_diameter)]
    ELSE offset

\* the body of the loop over info_.joints: no RCLCPP_FATAL and no return
JointPasses(joint) ==
  IF Len(joint.command_interfaces) # 1 THEN FALSE
  ELSE IF joint.command_interfaces[1] # HW_IF_VELOCITY THEN FALSE
  ELSE IF Len(joint.state_interfaces) # 2 THEN FALSE
  ELSE IF joint.state_interfaces[1] # HW_IF_POSITION THEN FALSE
  ELSE IF joint.state_interfaces[2] # HW_IF_VELOCITY THEN FALSE
  ELSE TRUE

RECURSIVE JointsPass(_, _)
JointsPass(joints, i) ==
  IF i > Len(joints) THEN TRUE
  ELSE IF ~JointPasses(joints[i]) THEN FALSE
  ELSE JointsPass(joints, i + 1)

\* configure_default() of the base class keeps the descriptor and returns OK
configure(params, joints, enc) ==
  LET n == Len(joints)
      thrown == FirstThrow(params)
      ran == thrown > Len(ParseOrder)       \* reached line 161
      resized == thrown > 2                 \* reached lines 151-154
      sized(v) == IF resized THEN Resize(v, n) ELSE v
      passed == JointsPass(joints, 1)
  IN /\ hw_start_sec_' = Parsed(params, 1, hw_start_sec_)
     /\ hw_stop_sec_' = Parsed(params, 2, hw_stop_sec_)
     /\ hw_states_position_' = sized(hw_states_position_)
     /\ hw_states_velocity_' = sized(hw_states_velocity_)
     /\ hw_commands_' = sized(hw_commands_)
     /\ wheel_diameter_' = Parsed(params, 3, wheel_diameter_)
     /\ max_accel_' = Parsed(params, 4, max_accel_)
     /\ max_speed_' = Parsed(params, 5, max_speed_)
     /\ polling_timeout_' = Parsed(params, 6, polling_timeout_)
     /\ serial_port_' = IF ran THEN params.serial_port.val ELSE serial_port_
     /\ hw_states_position_offset_' =
          IF ran THEN resetTravelOffset(enc, sized(hw_states_position_offset_),
                                        Stod(params.wheel_diameter))
          ELSE sized(hw_states_position_offset_)
     /\ status' = IF ran /\ passed THEN "Configured" ELSE status
     /\ calibrated' = IF ran /\ enc # NoSample THEN enc ELSE calibrated
     /\ started' = started
     /\ call' = [ NoCall EXCEPT
          !.op = "configure",
          !.params = params,
          !.joints = joints,
          !.threw = IF ran THEN "" ELSE ParseOrder[thrown],
          !.result = IF ~ran THEN "EXCEPTION" ELSE IF passed THEN "OK" ELSE "ERROR",
          !.connects = IF ran THEN << params.serial_port.val >> ELSE <<>>,
          !.limits = IF ran THEN << << Stod(params.max_speed), Stod(params.max_accel) >> >>
                     ELSE <<>>,
          !.asked = IF ran THEN 1 ELSE 0,
          !.travel = IF ran THEN enc ELSE NoSample,
          !.fatal = IF ~ran THEN 0
                    ELSE (IF enc = NoSample THEN 1 ELSE 0) + (IF passed THEN 0 ELSE 1) ]

\* the descriptors explored: any of them when configure() is the first call
\* on the object; later the default parameters with well-formed joints, as
\* many as before once there are some
Descriptors ==
  IF call.op = "none" THEN ParamSets \X JointLists
  ELSE { DefaultParams } \X
       { js \in GoodJointLists : hw_commands_ = <<>> \/ Len(js) = Len(hw_commands_) }


\* ------------------------------------------------------------------------
\* start() and stop()
\* ------------------------------------------------------------------------
\* iterations of `for (i = 0; i <= sec; i++)`: the integers 0..floor(sec)
Iterations(sec) ==
  IF IsNaN(sec) \/ sec < 0 THEN 0 ELSE (sec \div One) + 1

\* the last "%.1f seconds left..." value logged, if any
LastLeft(sec) ==
  IF Iterations(sec) = 0 THEN <<>>
  ELSE << FSub(sec, (Iterations(sec) - 1) * One) >>

\* the four vectors after the "set some default values" loop
Seeded(v) ==
  [i \in 1..Len(v) |-> IF IsNaN(hw_states_position_[i]) THEN 0 ELSE v[i]]

start(hw_start_sec) ==
  /\ ~IsInf(hw_start_sec)      \* the countdown ends
  /\ hw_states_position_' = Seeded(hw_states_position_)
  /\ hw_states_position_offset_' = Seeded(hw_states_position_offset_)
  /\ hw_states_velocity_' = Seeded(hw_states_velocity_)
  /\ hw_commands_' = Seeded(hw_commands_)
  /\ status' = "Started"
  /\ call' = [ NoCall EXCEPT !.op = "start", !.result = "OK",
                             !.waits = Iterations(hw_start_sec),
                             !.left = LastLeft(hw_start_sec) ]
  /\ UNCHANGED << hw_start_sec_, hw_stop_sec_, wheel_diameter_, max_accel_,
                  max_speed_, polling_timeout_, serial_port_, calibrated >>
  /\ started' = TRUE

stop(hw_stop_sec) ==
  /\ ~IsInf(hw_stop_sec)
  /\ status' = "Stopped"
  /\ call' = [ NoCall EXCEPT !.op = "stop", !.result = "OK",
                             !.waits = Iterations(hw_stop_sec),
                             !.left = LastLeft(hw_stop_sec) ]
  /\ UNCHANGED << hw_states_position_, hw_states_position_offset_,
                  hw_states_velocity_, hw_commands_, hw_start_sec_, hw_stop_sec_,
                  wheel_diameter_, max_accel_, max_speed_, polling_timeout_,
                  serial_port_, calibrated, started >>

\* ------------------------------------------------------------------------
\* read()
\* ------------------------------------------------------------------------
\* a threshold that also accepts a delta of exactly one radian
Accepted_inclusive(delta) == FLessEq(FAbs(delta), One)

\* std::abs(delta) < 1.0f
Accepted(delta) == FLess(FAbs(delta), One)

\* an update that drops a measurement without touching the offset
UpdateJoint_keepOffset(travel, position, offset, wheel_diameter) ==
  LET delta == FSub(FSub(linearToAngular(travel, wheel_diameter), position), offset)
  IN IF Accepted(delta)
       THEN << FAdd(position, delta), offset, FALSE >>
       ELSE << position, offset, TRUE >>

\* << position, offset, dropped >> of a joint after the body of the travel
\* loop; dropped tells that the measurement was dropped
UpdateJoint(travel, position, offset, wheel_diameter) ==
  LET delta == FSub(FSub(linearToAngular(travel, wheel_diameter), position), offset)
  IN IF Accepted(delta)
       THEN << FAdd(position, delta), offset, FALSE >>
       ELSE << position, FAdd(offset, delta), TRUE >>

\* an update that takes a missing encoder answer for a travel of zero
updateJointsFromHardware_noTravelCheck(enc, speed, wheel_diameter) ==
  [i \in 1..Len(hw_states_position_) |->
     LET joint == UpdateJoint(IF enc = NoSample THEN 0 ELSE enc[WheelOf(i)],
                                hw_states_position_[i],
                                hw_states_position_offset_[i], wheel_diameter)
         velocity == IF speed = NoSample THEN hw_states_velocity_[i]
                     ELSE IF (i - 1) % 2 = LEFT
                       THEN linearToAngular(speed[1], wheel_diameter)
                       ELSE linearToAngular(speed[2], wheel_diameter)
     IN << joint[1], joint[2], joint[3], velocity >>]

\* an update that gives the right speed to the even joints
updateJointsFromHardware_swapped(enc, speed, wheel_diameter) ==
  [i \in 1..Len(hw_states_position_) |->
     LET joint == IF enc = NoSample
                    THEN << hw_states_position_[i], hw_states_position_offset_[i], FALSE >>
                    ELSE UpdateJoint(enc[WheelOf(i)], hw_states_position_[i],
                                     hw_states_position_offset_[i], wheel_diameter)
         velocity == IF speed = NoSample THEN hw_states_velocity_[i]
                     ELSE IF (i - 1) % 2 = RIGHT
                       THEN linearToAngular(speed[1], wheel_diameter)
                       ELSE linearToAngular(speed[2], wheel_diameter)
     IN << joint[1], joint[2], joint[3], velocity >>]

\* the joints after updateJointsFromHardware(): for each joint
\* << position, offset, dropped, velocity >>
updateJointsFromHardware(enc, speed, wheel_diameter) ==
  [i \in 1..Len(hw_states_position_) |->
     LET joint == IF enc = NoSample
                    THEN << hw_states_position_[i], hw_states_position_offset_[i], FALSE >>
                    ELSE UpdateJoint(enc[WheelOf(i)], hw_states_position_[i],
                                     hw_states_position_offset_[i], wheel_diameter)
         velocity == IF speed = NoSample THEN hw_states_velocity_[i]
                     ELSE IF (i - 1) % 2 = LEFT
                       THEN linearToAngular(speed[1], wheel_diameter)
                       ELSE linearToAngular(speed[2], wheel_diameter)
     IN << joint[1], joint[2], joint[3], velocity >>]

read(enc, speed, wheel_diameter) ==
  LET upd == updateJointsFromHardware(enc, speed, wheel_diameter)
      n == Len(hw_states_position_)
  IN /\ hw_states_position_' = [i \in 1..n |-> upd[i][1]]
     /\ hw_states_position_offset_' = [i \in 1..n |-> upd[i][2]]
     /\ hw_states_velocity_' = [i \in 1..n |-> upd[i][4]]
     /\ call' = [ NoCall EXCEPT
          !.op = "read", !.result = "OK", !.asked = 1,
          !.travel = enc, !.speed = speed,
          !.dropped = Cardinality({ i \in 1..n : upd[i][3] }) ]
     /\ UNCHANGED << status, hw_commands_, hw_start_sec_, hw_stop_sec_,
                     wheel_diameter_, max_accel_, max_speed_, polling_timeout_,
                     serial_port_, calibrated, started >>

\* ------------------------------------------------------------------------
\* write()
\* ------------------------------------------------------------------------
write(left, right, wheel_diameter, max_speed, max_accel) ==
  /\ call' = [ NoCall EXCEPT
       !.op = "write", !.result = "OK",
       !.args = << left, right, max_speed, wheel_diameter, max_accel >>,
       !.sent = << writeCommandsToHardware(left, right, wheel_diameter,
                                           max_speed, max_accel) >> ]
  /\ UNCHANGED << fields, calibrated, started >>

\* ------------------------------------------------------------------------
\* A running controller sets a joint's velocity command through the command
\* interface export_command_interfaces() handed out
\* ------------------------------------------------------------------------
command(i, v) ==
  /\ status = "Started"
  /\ i \in 1..Len(hw_commands_)
  /\ hw_commands_' = [hw_commands_ EXCEPT ![i] = v]
  /\ call' = [ NoCall EXCEPT !.op = "command" ]
  /\ UNCHANGED << status, hw_states_position_, hw_states_position_offset_,
                  hw_states_velocity_, hw_start_sec_, hw_stop_sec_,
                  wheel_diameter_, max_accel_, max_speed_, polling_timeout_,
                  serial_port_, calibrated, started >>

\* ------------------------------------------------------------------------
\* The framework calls the five operations in any order, until one of them
\* lets an exception escape: nothing in the source catches it
\* ------------------------------------------------------------------------
Samples(S) == S \cup { NoSample }

Escaped == call.result = "EXCEPTION"

Configure ==
  /\ ~Escaped
  /\ \E d \in Descriptors, enc \in Samples(TravelSamples) : configure(d[1], d[2], enc)

Start == ~Escaped /\ \E sec \in ValuesOf(hw_start_sec_) : start(sec)

Stop == ~Escaped /\ \E sec \in ValuesOf(hw_stop_sec_) : stop(sec)

Read ==
  /\ ~Escaped
  /\ \E enc \in Samples(TravelSamples), speed \in Samples(SpeedSamples),
        d \in ValuesOf(wheel_diameter_) : read(enc, speed, d)

Write ==
  /\ ~Escaped
  /\ \E left \in CommandAt(LEFT), right \in CommandAt(RIGHT),
        d \in ValuesOf(wheel_diameter_), m \in ValuesOf(max_speed_),
        a \in ValuesOf(max_accel_) : write(left, right, d, m, a)

Command == ~Escaped /\ \E i \in 1..MaxJoints, v \in CommandValues : command(i, v)

Next == Configure \/ Start \/ Stop \/ Read \/ Write \/ Command

Spec == Init /\ [][Next]_vars

\* ------------------------------------------------------------------------
\* limitDifferentialSpeed() on its own: a configured object with a positive
\* max_speed_ and a pair of finite speeds, and the limiter applied to them
\* ------------------------------------------------------------------------
LimiterMaxSpeeds == { Float(7, 8), Float(1, 1), Float(3, 2) }
LimiterSpeeds == { Float(k, 8) : k \in -20..20 } \cup { Float(-12, 1), Float(7, 1) }

\* the scalar fields after a configure() with the default parameters and
\* no encoder data, n velocities and commands all worth seed, and the
\* speeds about to be limited
ConfiguredWith(n, seed, wheel_diameter, max_speed, speeds) ==
  /\ hw_states_velocity_ = [i \in 1..n |-> seed]
  /\ hw_commands_ = [i \in 1..n |-> seed]
  /\ hw_start_sec_ = Stod(DefaultParams.hw_start_duration_sec)
  /\ hw_stop_sec_ = Stod(DefaultParams.hw_stop_duration_sec)
  /\ wheel_diameter_ = wheel_diameter
  /\ max_accel_ = Stod(DefaultParams.max_accel)
  /\ max_speed_ = max_speed
  /\ polling_timeout_ = Stod(DefaultParams.polling_timeout)
  /\ serial_port_ = DefaultParams.serial_port.val
  /\ calibrated = NoSample
  /\ started = (status = "Started")
  /\ call = [ NoCall EXCEPT !.args = speeds ]

InitLimiter ==
  /\ status = "Configured"
  /\ hw_states_position_ = << NaN, NaN >>
  /\ hw_states_position_offset_ = << NaN, NaN >>
  /\ \E m \in LimiterMaxSpeeds, diff_speed_left \in LimiterSpeeds,
        diff_speed_right \in LimiterSpeeds :
        ConfiguredWith(2, NaN, Stod(DefaultParams.wheel_diameter), m,
                       << diff_speed_left, diff_speed_right, m >>)

Limit ==
  /\ call.op = "none"
  /\ call' = [ call EXCEPT
       !.op = "limitDifferentialSpeed",
       !.limited = limitDifferentialSpeed(call.args[1], call.args[2], max_speed_) ]
  /\ UNCHANGED << fields, calibrated, started >>

NextLimiter == Limit

SpecLimiter == InitLimiter /\ [][NextLimiter]_vars

\* ------------------------------------------------------------------------
\* updateJointsFromHardware() on its own: a started object whose joints
\* have been anywhere, and one read() with any encoder sample
\* ------------------------------------------------------------------------
TrackedJoints == 3   \* joints of the started object
TrackerWheelDiameters == { Float(3, 8), Float(1, 2) }
TrackerPositions == { NaN, 0, Float(11, 16) }
TrackerOffsets == { 0, Float(-1, 1) }
TrackerSamples == { <<Float(1, 8), Float(3, 16)>>,
                    <<Float(3, 4), Float(-3, 16)>>,
                    <<0, Float(1, 8)>> }

InitTracker ==
  /\ status = "Started"
  /\ hw_states_position_ \in [1..TrackedJoints -> TrackerPositions]
  /\ hw_states_position_offset_ \in [1..TrackedJoints -> TrackerOffsets]
  /\ \E d \in TrackerWheelDiameters :
        ConfiguredWith(TrackedJoints, 0, d, Stod(DefaultParams.max_speed), <<>>)

TrackerRead ==
  /\ call.op = "none"
  /\ \E enc \in Samples(TrackerSamples), speed \in Samples(SpeedSamples) :
    read(enc, speed, wheel_diameter_)

NextTracker == TrackerRead

SpecTracker == InitTracker /\ [][NextTracker]_vars

\* the drivetrain answers the next read() with the travel it answered the
\* last one with
TrackerReadAgain ==
  /\ call.op = "read" /\ call.travel # NoSample
  /\ read(call.travel, NoSample, wheel_diameter_)

NextRepeat == TrackerRead \/ TrackerReadAgain

SpecRepeat == InitTracker /\ [][NextRepeat]_vars

\* ------------------------------------------------------------------------
\* linearToAngular() and angularToLinear() on their own: a configured object
\* with a positive wheel_diameter_ and a finite number, and the conversions
\* applied to it
\* ------------------------------------------------------------------------
ConverterWheelDiameters == { Float(21, 64), Float(3, 8), Float(1, 2), Float(5, 8) }
ConverterValues == { Float(k, 16) : k \in -40..40 }

InitConverter ==
  /\ status = "Configured"
  /\ hw_states_position_ = << NaN, NaN >>
  /\ hw_states_position_offset_ = << NaN, NaN >>
  /\ \E d \in ConverterWheelDiameters, x \in ConverterValues :
        ConfiguredWith(2, NaN, d, Stod(DefaultParams.max_speed), << x >>)

Convert ==
  /\ call.op = "none"
  /\ call' = [ call EXCEPT
       !.op = "convert",
       !.converted =
         << linearToAngular(call.args[1], wheel_diameter_),
            angularToLinear(call.args[1], wheel_diameter_),
            angularToLinear(linearToAngular(call.args[1], wheel_diameter_),
                            wheel_diameter_) >> ]
  /\ UNCHANGED << fields, calibrated, started >>

NextConverter == Convert

SpecConverter == InitConverter /\ [][NextConverter]_vars

\* ------------------------------------------------------------------------
\* Properties
\* ------------------------------------------------------------------------
Max(a, b) == IF a < b THEN b ELSE a

\* C1: once the object holds a configured max_speed_ and at least two
\* commands, every controlSpeed request a write() sends carries a left and
\* a right speed whose magnitudes are both at most max_speed_.
SpeedLimitSafety ==
  (call.op = "write" /\ max_speed_ # Unset /\ Len(hw_commands_) >= 2)
    => \A i \in 1..Len(call.sent) :
         /\ FLessEq(FAbs(call.sent[i][1]), max_speed_)
         /\ FLessEq(FAbs(call.sent[i][2]), max_speed_)

\* the limiter has been applied to finite speeds l, r under a limit m > 0
Limited ==
  /\ call.op = "limitDifferentialSpeed"
  /\ IsFinite(call.args[1]) /\ IsFinite(call.args[2])
  /\ IsFinite(call.args[3]) /\ call.args[3] > 0
WithinLimit == Max(Abs(call.args[1]), Abs(call.args[2])) <= call.args[3]
LargestLimited == Max(Abs(call.limited[1]), Abs(call.limited[2]))
\* the scale factor, or the product of a nonzero speed with it, is smaller
\* than the smallest normal float
Underflows ==
  \/ call.args[3] * One < Max(Abs(call.args[1]), Abs(call.args[2])) * 2^(Precision - 1)
  \/ \E i \in 1..2 : call.args[i] # 0 /\ Abs(call.limited[i]) < 2^(Precision - 1)

DeltaOf(i, travel) ==
  FSub(FSub(linearToAngular(travel[(i % 2) + 1], wheel_diameter_),
            hw_states_position_[i + 1]),
       hw_states_position_offset_[i + 1])

\* C3: a read() that gets an encoder sample computes, for every joint i,
\* d = linearToAngular(travel[i mod 2]) - P - O from the position P and the
\* offset O before it; if |d| < 1.0 the position becomes P + d and the
\* offset stays O; if |d| >= 1.0 the position stays P and the offset
\* becomes O + d.
EncoderUpdateRule ==
  [][ (call'.op = "read" /\ call'.travel # NoSample) =>
        \A i \in 0..(Len(hw_states_position_) - 1) :
          LET d == DeltaOf(i, call'.travel)
          IN /\ FLess(FAbs(d), One) =>
                  /\ hw_states_position_'[i + 1] = FAdd(hw_states_position_[i + 1], d)
                  /\ hw_states_position_offset_'[i + 1] = hw_states_position_offset_[i + 1]
             /\ FLessEq(One, FAbs(d)) =>
                  /\ hw_states_position_'[i + 1] = hw_states_position_[i + 1]
                  /\ hw_states_position_offset_'[i + 1] =
                       FAdd(hw_states_position_offset_[i + 1], d) ]_vars

\* a read() got an encoder sample, accepted it for the third joint and
\* dropped it for another
EncoderUpdateBothCases ==
  /\ call.op = "read" /\ call.travel # NoSample
  /\ Len(hw_states_position_) >= 3
  /\ call.dropped >= 1 /\ call.dropped < Len(hw_states_position_)
  /\ ~IsNaN(hw_states_position_[3]) /\ hw_states_position_[3] # 0
  /\ \A i \in 1..Len(hw_states_position_offset_) : ~IsNaN(hw_states_position_offset_[i])

\* C4: a configure() whose encoder request gets no data does not return OK
\* and does not leave the status at Configured.
CalibrationFailureIsFatal ==
  (call.op = "configure" /\ call.asked = 1 /\ call.travel = NoSample)
    => (call.result # "OK" /\ status # "Configured")

\* C5: while the status is not Started, a read() changes no joint state and
\* a write() sends no controlSpeed request.
ReadWriteOnlyWhenStarted ==
  [][ /\ (status # "Started" /\ call'.op = "read") =>
           UNCHANGED << hw_states_position_, hw_states_position_offset_,
                        hw_states_velocity_ >>
      /\ (status # "Started" /\ call'.op = "write") => call'.sent = <<>> ]_vars

\* C6: when configure() calibrated the offsets from a travel sample T and
\* start() has completed, the first read() that gets the sample T leaves
\* every position and every offset as it was, the offset of joint i being
\* linearToAngular(T[i mod 2]).
CalibrationZeroesFirstDelta ==
  [][ ( /\ call.op = "start" /\ calibrated # NoSample
        /\ call'.op = "read" /\ call'.travel = calibrated ) =>
        /\ hw_states_position_' = hw_states_position_
        /\ hw_states_position_offset_' = hw_states_position_offset_
        /\ \A i \in 0..(Len(hw_states_position_offset_) - 1) :
             hw_states_position_offset_'[i + 1] =
               linearToAngular(calibrated[(i % 2) + 1], wheel_diameter_) ]_vars

\* a joint of the descriptor does not have exactly one velocity command
\* interface and exactly the state interfaces position, velocity
IllFormed(joint) ==
  \/ joint.command_interfaces # << HW_IF_VELOCITY >>
  \/ joint.state_interfaces # << HW_IF_POSITION, HW_IF_VELOCITY >>

\* C7: a configure() of an unconfigured object whose descriptor has an
\* ill-formed joint returns ERROR and leaves the status Unconfigured.
JointValidation ==
  [][ ( /\ status = "Unconfigured" /\ call'.op = "configure"
        /\ \E i \in 1..Len(call'.joints) : IllFormed(call'.joints[i]) ) =>
        (call'.result = "ERROR" /\ status' = "Unconfigured") ]_vars

\* C8: a configure() that returns ERROR has changed no array and no
\* constant, has not connected to the drivetrain, has sent it no limits and
\* has asked it for no data.
NoPartialConfiguration ==
  [][ (call'.op = "configure" /\ call'.result = "ERROR") =>
        /\ call'.connects = <<>> /\ call'.limits = <<>> /\ call'.asked = 0
        /\ UNCHANGED << hw_states_position_, hw_states_position_offset_,
                        hw_states_velocity_, hw_commands_, hw_start_sec_,
                        hw_stop_sec_, wheel_diameter_, max_accel_, max_speed_,
                        polling_timeout_, serial_port_ >> ]_vars

\* a parameter of the descriptor is missing, or a number parameter is not
\* a numeral
Malformed(params) ==
  \/ \E i \in 1..Len(ParamNames) : params[ParamNames[i]].kind = "absent"
  \/ \E i \in 1..Len(ParseOrder) : params[ParseOrder[i]].kind # "num"

\* C9: a configure() whose descriptor lacks a parameter or carries a number
\* parameter that is not a numeral returns ERROR and does not leave the
\* status at Configured.
MalformedParametersAreErrors ==
  (call.op = "configure" /\ Malformed(call.params))
    => (call.result = "ERROR" /\ status # "Configured")

\* C10: a configure() whose max_speed parameter is a number that is not
\* positive does not return OK and does not leave the status at Configured,
\* and no write() runs the limiter with a configured max_speed_ that is not
\* positive.
NonPositiveSpeedLimitRejected ==
  /\ ( /\ call.op = "configure"
       /\ call.params.max_speed.kind = "num"
       /\ FLessEq(Stod(call.params.max_speed), 0) )
       => (call.result # "OK" /\ status # "Configured")
  /\ (call.op = "write" /\ max_speed_ # Unset) => FGreater(call.args[3], 0)

\* C11: the status changes only from Unconfigured to Configured by a
\* configure() that returns OK, from Configured or Stopped to Started by
\* start(), and from Started to Stopped by stop().
LifecycleOrdering ==
  [][ status' # status =>
        \/ /\ status = "Unconfigured" /\ status' = "Configured"
           /\ call'.op = "configure" /\ call'.result = "OK"
        \/ /\ status \in { "Configured", "Stopped" } /\ status' = "Started"
           /\ call'.op = "start"
        \/ /\ status = "Started" /\ status' = "Stopped"
           /\ call'.op = "stop" ]_vars

\* v after a start() that sets to zero the entries of v that are NaN and
\* no other
SeededWhereNaN(v) == [i \in 1..Len(v) |-> IF IsNaN(v[i]) THEN 0 ELSE v[i]]

\* C12: a start() sets to zero the position, offset, velocity and command
\* entries that are NaN and leaves every entry that holds a number as it
\* was.
StartSeedsOnlyNaN ==
  [][ call'.op = "start" =>
        /\ hw_states_position_' = SeededWhereNaN(hw_states_position_)
        /\ hw_states_position_offset_' = SeededWhereNaN(hw_states_position_offset_)
        /\ hw_states_velocity_' = SeededWhereNaN(hw_states_velocity_)
        /\ hw_commands_' = SeededWhereNaN(hw_commands_) ]_vars

\* C13: a read() that gets neither a travel sample nor a speed sample
\* leaves every position, offset and velocity as it was and returns OK.
ReadWithoutSamples ==
  [][ (call'.op = "read" /\ call'.travel = NoSample /\ call'.speed = NoSample) =>
        /\ UNCHANGED << hw_states_position_, hw_states_position_offset_,
                        hw_states_velocity_ >>
        /\ call'.result = "OK" ]_vars

\* a read() of a started object got no sample while a joint held a position
\* and a velocity other than zero
ReadWithoutSamplesDone ==
  /\ call.op = "read" /\ call.travel = NoSample /\ call.speed = NoSample
  /\ call.asked = 1 /\ status = "Started"
  /\ \E i \in 1..Len(hw_states_position_) :
       /\ IsFinite(hw_states_position_[i]) /\ hw_states_position_[i] # 0
       /\ IsFinite(hw_states_velocity_[i]) /\ hw_states_velocity_[i] # 0

\* position p became q by less than one radian, or stayed as it was
Continuous(p, q) ==
  \/ q = p
  \/ IsFinite(p) /\ IsFinite(q) /\ Abs(q - p) < One

\* C14: once a start() has completed, no read(), write(), stop() or
\* start() changes a position by one radian or more, or replaces one that
\* is not a number.
PositionContinuity ==
  [][ (started /\ call'.op \in { "read", "write", "stop", "start" }) =>
        \A i \in 1..Len(hw_states_position_) :
          Continuous(hw_states_position_[i], hw_states_position_'[i]) ]_vars

\* the conversions have been applied to a finite x under a wheel diameter
\* d > 0
Converted ==
  /\ call.op = "convert" /\ IsFinite(call.args[1])
  /\ IsFinite(wheel_diameter_) /\ wheel_diameter_ > 0
\* a conversion overflowed, or one of its steps gave a number that is not
\* larger than the smallest normal float
ConversionOutOfRange ==
  \/ \E i \in 1..3 : ~IsFinite(call.converted[i])
  \/ /\ call.args[1] # 0
     /\ \/ Abs(call.converted[1]) <= 2^Precision
        \/ Abs(call.converted[2]) <= 2^(Precision - 1)
        \/ Abs(call.converted[3]) <= 2^(Precision - 1)

\* C15 as stated: angularToLinear(linearToAngular(x)) is x, linearToAngular(x)
\* is 2x / wheel_diameter and angularToLinear(x) is x * wheel_diameter / 2,
\* exactly.
ConversionRoundTripExact ==
  Converted =>
    /\ call.converted[3] = call.args[1]
    /\ call.converted[1] * wheel_diameter_ = 2 * call.args[1] * One
    /\ 2 * call.converted[2] * One = call.args[1] * wheel_diameter_

\* C15: unless a conversion overflows or underflows,
\* angularToLinear(linearToAngular(x)) differs from x by at most
\* 3 * 2^-Precision of |x|, linearToAngular(x) from 2x / wheel_diameter and
\* angularToLinear(x) from x * wheel_diameter / 2 by at most 2^-Precision of
\* their magnitude.
ConversionRoundTripRounded ==
  Converted =>
    \/ ConversionOutOfRange
    \/ /\ Abs(call.converted[3] - call.args[1]) * 2^Precision <= 3 * Abs(call.args[1])
       /\ Abs(call.converted[1] * wheel_diameter_ - 2 * call.args[1] * One) * 2^Precision
            <= 2 * Abs(call.args[1]) * One
       /\ Abs(2 * call.converted[2] * One - call.args[1] * wheel_diameter_) * 2^Precision
            <= Abs(call.args[1]) * wheel_diameter_

\* a number went through both conversions, in range, and did not come back
\* as it was
ConversionRounded ==
  /\ Converted /\ ~ConversionOutOfRange
  /\ call.converted[3] # call.args[1]

\* C16: a read() that gets only a travel sample leaves every velocity as it
\* was; a read() that gets only a speed sample leaves every position and
\* offset as it was and sets the velocity of joint i to linearToAngular of
\* the left speed for even i and of the right speed for odd i, whatever
\* its size; no read() changes a command.
SamplesAreIndependent ==
  [][ call'.op = "read" =>
        /\ (call'.travel # NoSample /\ call'.speed = NoSample) =>
             UNCHANGED hw_states_velocity_
        /\ (call'.travel = NoSample /\ call'.speed # NoSample) =>
             /\ UNCHANGED << hw_states_position_, hw_states_position_offset_ >>
             /\ Len(hw_states_velocity_') = Len(hw_states_velocity_)
             /\ \A i \in 0..(Len(hw_states_velocity_) - 1) :
                  hw_states_velocity_'[i + 1] =
                    linearToAngular(call'.speed[(i % 2) + 1], wheel_diameter_)
        /\ UNCHANGED hw_commands_ ]_vars

\* a read() got only a speed sample and gave three joints, with positions
\* other than zero among them, velocities of one radian per second and more
SpeedOnlyRead ==
  /\ call.op = "read" /\ call.travel = NoSample /\ call.speed # NoSample
  /\ Len(hw_states_velocity_) >= 3
  /\ \A i \in 1..Len(hw_states_velocity_) :
       IsFinite(hw_states_velocity_[i]) /\ Abs(hw_states_velocity_[i]) >= One
  /\ hw_states_velocity_[1] # hw_states_velocity_[2]
  /\ hw_states_velocity_[3] = hw_states_velocity_[1]
  /\ \E i \in 1..Len(hw_states_position_) :
       IsFinite(hw_states_position_[i]) /\ hw_states_position_[i] # 0

\* what a write() found in a double field: its value, or when it was never
\* assigned the indeterminate value the write read
ValueRead(field, found) == IF field = Unset THEN found ELSE field
\* what a write() found in hw_commands_[i] (zero-based): the command, or
\* past the end the value the write read
CommandRead(i, found) ==
  IF i + 1 <= Len(hw_commands_) THEN hw_commands_[i + 1] ELSE found

\* C17: a write() sends exactly one controlSpeed(l, r, max_accel_,
\* max_accel_), (l, r) being what the limiter returns for
\* angularToLinear(hw_commands_[0]) and angularToLinear(hw_commands_[1]),
\* and changes no command, position, offset or velocity.
WriteDispatchesOnce ==
  [][ call'.op = "write" =>
        LET wheel_diameter == ValueRead(wheel_diameter_, call'.args[4])
            max_accel == ValueRead(max_accel_, call'.args[5])
            limited == limitDifferentialSpeed(
                         angularToLinear(CommandRead(LEFT, call'.args[1]), wheel_diameter),
                         angularToLinear(CommandRead(RIGHT, call'.args[2]), wheel_diameter),
                         ValueRead(max_speed_, call'.args[3]))
        IN /\ call'.sent = << << limited[1], limited[2], max_accel, max_accel >> >>
           /\ UNCHANGED << hw_commands_, hw_states_position_,
                           hw_states_position_offset_, hw_states_velocity_ >> ]_vars

\* a write() of an object with three joints sent a left speed and no right
\* speed while the third command was not zero
WriteIgnoresThirdJoint ==
  /\ call.op = "write" /\ Len(hw_commands_) >= 3
  /\ IsFinite(hw_commands_[1]) /\ hw_commands_[1] # 0
  /\ hw_commands_[2] = 0
  /\ IsFinite(hw_commands_[3]) /\ hw_commands_[3] # 0
  /\ Len(call.sent) = 1
  /\ IsFinite(call.sent[1][1]) /\ call.sent[1][1] # 0 /\ call.sent[1][2] = 0

\* sec is a configured duration of a whole, non-negative number of seconds
WholeSeconds(sec) == sec # Unset /\ IsFinite(sec) /\ sec >= 0 /\ sec % One = 0

\* C18: with a configured start duration of D whole seconds a start() has
\* waited D times one second, reported 0 seconds left last and set the
\* status to Started; with a configured stop duration of D whole seconds a
\* stop() has waited D times, reported 0 last and set the status to Stopped.
CountdownWaits ==
  /\ (call.op = "start" /\ WholeSeconds(hw_start_sec_)) =>
       /\ call.waits * One = hw_start_sec_
       /\ call.left = << 0 >>
       /\ status = "Started"
  /\ (call.op = "stop" /\ WholeSeconds(hw_stop_sec_)) =>
       /\ call.waits * One = hw_stop_sec_
       /\ call.left = << 0 >>
       /\ status = "Stopped"

Max3(a, b, c) == Max(Max(a, b), c)
\* joint i (counted from 1) held a position and an offset that are numbers
\* before and after the step, and the travel converts to a number
Tracked(i) ==
  /\ IsFinite(hw_states_position_[i]) /\ IsFinite(hw_states_position_offset_[i])
  /\ IsFinite(hw_states_position_'[i]) /\ IsFinite(hw_states_position_offset_'[i])
  /\ IsFinite(linearToAngular(call'.travel[WheelOf(i)], wheel_diameter_))
\* position + offset - linearToAngular(travel) of joint i after the step
Residue(i) ==
  hw_states_position_'[i] + hw_states_position_offset_'[i]
    - linearToAngular(call'.travel[WheelOf(i)], wheel_diameter_)
\* position + offset - linearToAngular(travel) of joint i before a step
\* that reads the same travel again
ResidueBefore(i) ==
  hw_states_position_[i] + hw_states_position_offset_[i]
    - linearToAngular(call'.travel[WheelOf(i)], wheel_diameter_)
\* the largest magnitude joint i held in the step
Magnitude(i) ==
  Max3(Max(Abs(hw_states_position_[i]), Abs(hw_states_position_offset_[i])),
       Max(Abs(hw_states_position_'[i]), Abs(hw_states_position_offset_'[i])),
       Abs(linearToAngular(call'.travel[WheelOf(i)], wheel_diameter_)))
\* how much position and offset of joint i moved in the step
Moved(i) ==
  Abs(hw_states_position_'[i] - hw_states_position_[i])
    + Abs(hw_states_position_offset_'[i] - hw_states_position_offset_[i])

\* C19 as stated: after a read() of a started object that got a travel
\* sample, position + offset of every joint that holds numbers is
\* linearToAngular(travel[i mod 2]) exactly, and a following read() that
\* gets the same sample changes no position and no offset.
BaselineExact ==
  [][ (status = "Started" /\ call'.op = "read" /\ call'.travel # NoSample) =>
        \A i \in 1..Len(hw_states_position_) :
          Tracked(i) =>
            /\ Residue(i) = 0
            /\ (call.op = "read" /\ call.travel = call'.travel) => Moved(i) = 0 ]_vars

\* C19: after a read() of a started object that got a travel sample,
\* position + offset of every joint that holds numbers differs from
\* linearToAngular(travel[i mod 2]) by at most 8 * 2^-Precision of the
\* largest magnitude the joint held, and a following read() that gets the
\* same sample moves position and offset by at most the difference the
\* first one left plus as much again.
BaselineRounded ==
  [][ (status = "Started" /\ call'.op = "read" /\ call'.travel # NoSample) =>
        \A i \in 1..Len(hw_states_position_) :
          Tracked(i) =>
            /\ Abs(Residue(i)) * 2^Precision <= 8 * Magnitude(i)
            /\ (call.op = "read" /\ call.travel = call'.travel) =>
                 (Moved(i) - Abs(ResidueBefore(i))) * 2^Precision <= 8 * Magnitude(i) ]_vars

\* a read() of a started object got a travel sample, accepted it for one
\* joint and dropped it for another, and left position + offset of a joint
\* off linearToAngular(travel)
BaselineOff ==
  /\ call.op = "read" /\ call.travel # NoSample /\ status = "Started"
  /\ call.dropped >= 1 /\ call.dropped < Len(hw_states_position_)
  /\ \E i \in 1..Len(hw_states_position_) :
       /\ IsFinite(hw_states_position_[i]) /\ IsFinite(hw_states_position_offset_[i])
       /\ hw_states_position_[i] + hw_states_position_offset_[i]
            # linearToAngular(call.travel[WheelOf(i)], wheel_diameter_)

\* C20: whenever a write() runs, hw_commands_ holds at least two entries.
CommandArrayBounds == call.op = "write" => Len(hw_commands_) >= 2

====
